---- MODULE Spec2Model ----
(***************************************************************************)
(* Model of the entity client of go-wit (entities.go).                     *)
(*                                                                         *)
(* Every operation of WitClient is one blocking round trip: it builds a    *)
(* request from its arguments and client.ApiBase, hands it to one of the   *)
(* package helpers post/get/put/delete, and computes its (value, error)    *)
(* pair from the helper's (result, statusCode, err).  Each operation is    *)
(* split at the blocking helper call: the first half is the operation's    *)
(* own action, the second half is TransportReturn, which runs the rest of  *)
(* the operation on the helper's answer.  Several callers share one        *)
(* client.                                                                 *)
(***************************************************************************)
EXTENDS Naturals, Sequences, FiniteSets, TLC

(***************************************************************************)
(* Finite input domains.                                                   *)
(***************************************************************************)
Callers == {"c1", "c2"}

BaseUrls == {"https://api.wit.ai", "http://localhost:8080"}

Ids == {"favorite_city", "wit$temperature"}

ValueNames == {"Paris"}

\* An expression is a string; it is kept as the sequence of its characters
\* so that url.QueryEscape can be applied character by character.
Exps == { << >>, <<"a", " ", "&">> }

StatusOK == 200

StatusCodes == {200, 404}

\* error values; NoErr is Go's nil error
NoErr == "nil"

TransportErrs == {"dial tcp: i/o timeout"}

\* Go zero values
ZeroEntity == [Builtin |-> FALSE, Doc |-> "", Id |-> "", Values |-> << >>]

ZeroEntityValue == [Value |-> "", Expressions |-> << >>]

\* type Entity struct (the objects callers pass in)
EntityObjs ==
    { [Builtin |-> FALSE, Doc |-> "A city", Id |-> "favorite_city",
       Values |-> << [Value |-> "Paris", Expressions |-> <<"City of Light">>] >>],
      [Builtin |-> TRUE, Doc |-> "", Id |-> "wit$temperature", Values |-> << >>] }

\* type EntityValue struct
EntityValueObjs == { [Value |-> "Barcelona", Expressions |-> <<"Paella">>] }

(***************************************************************************)
(* Values an operation can return beside its error: nil, a []byte, an      *)
(* *Entity or an *Entities.                                                *)
(***************************************************************************)
NilVal == [kind |-> "nil"]

Bytes(b) == [kind |-> "bytes", data |-> b]

EntityPtr(e) == [kind |-> "entity", entity |-> e]

EntitiesPtr(l) == [kind |-> "entities", list |-> l]

(***************************************************************************)
(* encoding/json and net/url, as far as the operations use them.           *)
(***************************************************************************)
RECURSIVE Concat(_)
Concat(s) == IF s = << >> THEN "" ELSE Head(s) \o Concat(Tail(s))

\* []byte(exp) / the Go string itself: the characters, unchanged
Str(exp) == Concat(exp)

\* url.QueryEscape on one character: unreserved characters stay, a space
\* becomes "+", everything else becomes %XX
EscapeChar(ch) ==
    CASE ch = " " -> "+"
      [] ch = "&" -> "%26"
      [] ch = "/" -> "%2F"
      [] OTHER -> ch

RECURSIVE QueryEscape(_)
QueryEscape(exp) ==
    IF exp = << >> THEN "" ELSE EscapeChar(Head(exp)) \o QueryEscape(Tail(exp))

JsonBool(b) == IF b THEN "true" ELSE "false"

JsonString(s) == "\"" \o s \o "\""

RECURSIVE JsonList(_)
\* the elements of a JSON array, comma separated
JsonList(items) ==
    IF items = << >> THEN ""
    ELSE IF Len(items) = 1 THEN Head(items)
    ELSE Head(items) \o "," \o JsonList(Tail(items))

\* a nil slice marshals as null
JsonArray(items) == IF items = << >> THEN "null" ELSE "[" \o JsonList(items) \o "]"

JsonEntityValue(v) ==
    "{\"value\":" \o JsonString(v.Value) \o ",\"expressions\":"
        \o JsonArray([i \in 1..Len(v.Expressions) |-> JsonString(v.Expressions[i])])
        \o "}"

\* json.Marshal(entity): Values carries no tag and is written as "Values".
\* Marshal cannot fail on a struct of bool, string and slices of such.
MarshalEntity(e) ==
    [data |-> "{\"builtin\":" \o JsonBool(e.Builtin)
                \o ",\"doc\":" \o JsonString(e.Doc)
                \o ",\"id\":" \o JsonString(e.Id)
                \o ",\"Values\":"
                \o JsonArray([i \in 1..Len(e.Values) |-> JsonEntityValue(e.Values[i])])
                \o "}",
     err |-> NoErr]

\* json.Marshal(entityValue)
MarshalEntityValue(v) == [data |-> JsonEntityValue(v), err |-> NoErr]

\* Response bodies the service may send.
BodyEntity ==
    "{\"id\":\"favorite_city\",\"doc\":\"\",\"builtin\":false,\"values\":[{\"value\":\"Paris\",\"expressions\":[\"City of Light\"]}]}"

BodyList == "[\"wit$temperature\",\"favorite_city\"]"

BodyMalformed == "{\"id\":"

Bodies == {BodyEntity, BodyList, BodyMalformed}

\* json.Unmarshal(data, &Entity{}): the decoded object, or the decoder's error
UnmarshalEntity(data) ==
    CASE data = BodyEntity ->
            [err |-> NoErr,
             entity |-> [Builtin |-> FALSE, Doc |-> "", Id |-> "favorite_city",
                         Values |-> << [Value |-> "Paris",
                                        Expressions |-> <<"City of Light">>] >>]]
      [] data = BodyList ->
            [err |-> "json: cannot unmarshal array into Go value of type wit.Entity",
             entity |-> ZeroEntity]
      [] OTHER ->
            [err |-> "unexpected end of JSON input", entity |-> ZeroEntity]

\* json.Unmarshal(data, &Entities{})
UnmarshalEntities(data) ==
    CASE data = BodyList ->
            [err |-> NoErr, list |-> <<"wit$temperature", "favorite_city">>]
      [] data = BodyEntity ->
            [err |-> "json: cannot unmarshal object into Go value of type wit.Entities",
             list |-> << >>]
      [] OTHER ->
            [err |-> "unexpected end of JSON input", list |-> << >>]

\* func parseEntities(data []byte) (*Entities, error)
parseEntities(data) ==
    LET u == UnmarshalEntities(data)
    IN  IF u.err # NoErr THEN [val |-> NilVal, err |-> u.err]
        ELSE [val |-> EntitiesPtr(u.list), err |-> NoErr]

\* func parseEntity(data []byte) (*Entity, error)
parseEntity(data) ==
    LET u == UnmarshalEntity(data)
    IN  IF u.err # NoErr THEN [val |-> NilVal, err |-> u.err]
        ELSE [val |-> EntityPtr(u.entity), err |-> NoErr]

(***************************************************************************)
(* The transport helpers: what each sends.                                 *)
(***************************************************************************)
post(url, data) == [verb |-> "POST", url |-> url, hasBody |-> TRUE, body |-> data]

put(url, data) == [verb |-> "PUT", url |-> url, hasBody |-> TRUE, body |-> data]

get(url) == [verb |-> "GET", url |-> url, hasBody |-> FALSE, body |-> ""]

\* delete(url, params) addresses url followed by params
delete(url, params) ==
    [verb |-> "DELETE", url |-> url \o params, hasBody |-> FALSE, body |-> ""]

(***************************************************************************)
(* State.                                                                  *)
(***************************************************************************)
VARIABLES
    ApiBase,    \* client.ApiBase, set when the client is constructed
    pc,         \* per caller: "idle", "wait" (inside the helper), "done"
    op,         \* per caller: the operation in progress
    args,       \* per caller: the arguments as passed at the call
    heap,       \* per caller: the Entity / EntityValue objects it handed in
    reqs,       \* per caller: the requests the current call handed to the transport
    reply,      \* per caller: what the helper returned (result, statusCode, err)
    ret         \* per caller: what the operation returned (val, err)

vars == <<ApiBase, pc, op, args, heap, reqs, reply, ret>>

NoArgs ==
    [id |-> "", value |-> "", exp |-> << >>,
     entity |-> ZeroEntity, entityValue |-> ZeroEntityValue]

NoHeap == [entity |-> ZeroEntity, entityValue |-> ZeroEntityValue]

NoReply == [result |-> "", statusCode |-> 0, err |-> NoErr]

NoRet == [val |-> NilVal, err |-> NoErr]

Init ==
    /\ ApiBase \in BaseUrls
    /\ pc = [c \in Callers |-> "idle"]
    /\ op = [c \in Callers |-> "none"]
    /\ args = [c \in Callers |-> NoArgs]
    /\ heap = [c \in Callers |-> NoHeap]
    /\ reqs = [c \in Callers |-> << >>]
    /\ reply = [c \in Callers |-> NoReply]
    /\ ret = [c \in Callers |-> NoRet]

(***************************************************************************)
(* First half of every operation: up to and including the helper call.     *)
(* Called(c, name, a, h): caller c, holding the objects h, has called      *)
(* operation name with arguments a and is now blocked in the helper.       *)
(* Nothing of the client is written.                                       *)
(***************************************************************************)
Called(c, name, a, h) ==
    /\ pc' = [pc EXCEPT ![c] = "wait"]
    /\ op' = [op EXCEPT ![c] = name]
    /\ args' = [args EXCEPT ![c] = a]
    /\ heap' = [heap EXCEPT ![c] = h]
    /\ UNCHANGED <<ApiBase, reply, ret>>

\* CreateEntity as it would be if it cleared the values of the caller's
\* object before serializing it
CreateEntityClearsValues(c) ==
    \E entity \in EntityObjs :
        LET stripped == [entity EXCEPT !.Values = << >>]
            m == MarshalEntity(stripped)
        IN  /\ pc[c] = "idle"
            /\ reqs' = [reqs EXCEPT ![c] =
                            Append(reqs[c], post(ApiBase \o "/entities", m.data))]
            /\ Called(c, "CreateEntity", [NoArgs EXCEPT !.entity = entity],
                      [NoHeap EXCEPT !.entity = stripped])

\* CreateEntity, lines 32-33
CreateEntity(c) ==
    \E entity \in EntityObjs :
        LET m == MarshalEntity(entity)
        IN  /\ pc[c] = "idle"
            /\ reqs' = [reqs EXCEPT ![c] =
                            Append(reqs[c], post(ApiBase \o "/entities", m.data))]
            /\ Called(c, "CreateEntity", [NoArgs EXCEPT !.entity = entity],
                      [NoHeap EXCEPT !.entity = entity])

\* CreateEntityValue, lines 44-45
CreateEntityValue(c) ==
    \E id \in Ids, entityValue \in EntityValueObjs :
        LET m == MarshalEntityValue(entityValue)
        IN  /\ pc[c] = "idle"
            /\ reqs' = [reqs EXCEPT ![c] =
                            Append(reqs[c],
                                   post(ApiBase \o "/entities/" \o id \o "/values", m.data))]
            /\ Called(c, "CreateEntityValue",
                      [NoArgs EXCEPT !.id = id, !.entityValue = entityValue],
                      [NoHeap EXCEPT !.entityValue = entityValue])

\* CreateEntityValueExp, line 61
CreateEntityValueExp(c) ==
    \E id \in Ids, value \in ValueNames, exp \in Exps :
        /\ pc[c] = "idle"
        /\ reqs' = [reqs EXCEPT ![c] =
                        Append(reqs[c],
                               post(ApiBase \o "/entities/" \o id \o "/values/" \o value
                                        \o "/expressions",
                                    Str(exp)))]
        /\ Called(c, "CreateEntityValueExp",
                  [NoArgs EXCEPT !.id = id, !.value = value, !.exp = exp], NoHeap)

\* DeleteEntity, line 77
DeleteEntity(c) ==
    \E id \in Ids :
        /\ pc[c] = "idle"
        /\ reqs' = [reqs EXCEPT ![c] =
                        Append(reqs[c], delete(ApiBase \o "/entities/", id))]
        /\ Called(c, "DeleteEntity", [NoArgs EXCEPT !.id = id], NoHeap)

\* DeleteEntityValue, line 88
DeleteEntityValue(c) ==
    \E id \in Ids, value \in ValueNames :
        /\ pc[c] = "idle"
        /\ reqs' = [reqs EXCEPT ![c] =
                        Append(reqs[c],
                               delete(ApiBase \o "/entities/", id \o "/values/" \o value))]
        /\ Called(c, "DeleteEntityValue", [NoArgs EXCEPT !.id = id, !.value = value],
                  NoHeap)

\* DeleteEntityValueExp as it would be with the unescaped expression under the
\* plural segment of the creation path
DeleteEntityValueExpPlural(c) ==
    \E id \in Ids, value \in ValueNames, exp \in Exps :
        LET data == id \o "/values/" \o value \o "/expressions/" \o Str(exp)
        IN  /\ pc[c] = "idle"
            /\ reqs' = [reqs EXCEPT ![c] =
                            Append(reqs[c], delete(ApiBase \o "/entities/", data))]
            /\ Called(c, "DeleteEntityValueExp",
                      [NoArgs EXCEPT !.id = id, !.value = value, !.exp = exp], NoHeap)

\* DeleteEntityValueExp, lines 99-100
DeleteEntityValueExp(c) ==
    \E id \in Ids, value \in ValueNames, exp \in Exps :
        LET data == id \o "/values/" \o value \o "/expression/" \o QueryEscape(exp)
        IN  /\ pc[c] = "idle"
            /\ reqs' = [reqs EXCEPT ![c] =
                            Append(reqs[c], delete(ApiBase \o "/entities/", data))]
            /\ Called(c, "DeleteEntityValueExp",
                      [NoArgs EXCEPT !.id = id, !.value = value, !.exp = exp], NoHeap)

\* Entities, line 111
Entities(c) ==
    /\ pc[c] = "idle"
    /\ reqs' = [reqs EXCEPT ![c] = Append(reqs[c], get(ApiBase \o "/entities"))]
    /\ Called(c, "Entities", NoArgs, NoHeap)

\* Entity, line 123
Entity(c) ==
    \E id \in Ids :
        /\ pc[c] = "idle"
        /\ reqs' = [reqs EXCEPT ![c] =
                        Append(reqs[c], get(ApiBase \o "/entities/" \o id))]
        /\ Called(c, "Entity", [NoArgs EXCEPT !.id = id], NoHeap)

\* UpdateEntity as it would be if it built the resource URL in place in
\* client.ApiBase
UpdateEntityRebases(c) ==
    \E entity \in EntityObjs :
        LET m == MarshalEntity(entity)
            url == ApiBase \o "/entities/" \o entity.Id
        IN  /\ pc[c] = "idle"
            /\ ApiBase' = url
            /\ reqs' = [reqs EXCEPT ![c] = Append(reqs[c], put(url, m.data))]
            /\ pc' = [pc EXCEPT ![c] = "wait"]
            /\ op' = [op EXCEPT ![c] = "UpdateEntity"]
            /\ args' = [args EXCEPT ![c] = [NoArgs EXCEPT !.entity = entity]]
            /\ heap' = [heap EXCEPT ![c] = [NoHeap EXCEPT !.entity = entity]]
            /\ UNCHANGED <<reply, ret>>

\* UpdateEntity, lines 135-136
UpdateEntity(c) ==
    \E entity \in EntityObjs :
        LET m == MarshalEntity(entity)
        IN  /\ pc[c] = "idle"
            /\ reqs' = [reqs EXCEPT ![c] =
                            Append(reqs[c],
                                   put(ApiBase \o "/entities/" \o entity.Id, m.data))]
            /\ Called(c, "UpdateEntity", [NoArgs EXCEPT !.entity = entity],
                      [NoHeap EXCEPT !.entity = entity])

(***************************************************************************)
(* Second half of every operation: from the helper's (result, statusCode,  *)
(* err) to the operation's (value, error).                                 *)
(***************************************************************************)
\* the tail shared by the operations that return the raw body
\* (CreateEntity 34-37, DeleteEntity 78-81, DeleteEntityValue 89-92,
\*  DeleteEntityValueExp 101-104, UpdateEntity 137-140)
RawReturn(result, statusCode, err) ==
    IF statusCode # StatusOK THEN [val |-> NilVal, err |-> err]
    ELSE [val |-> Bytes(result), err |-> NoErr]

\* the same tail as it would be if a failed decode returned the entity it had
\* started to fill together with the error
ParsedReturnKeepsEntity(result, statusCode, err) ==
    IF statusCode # StatusOK THEN [val |-> NilVal, err |-> err]
    ELSE LET u == UnmarshalEntity(result)
         IN  IF u.err # NoErr THEN [val |-> EntityPtr(u.entity), err |-> u.err]
             ELSE [val |-> EntityPtr(u.entity), err |-> NoErr]

\* the tail shared by CreateEntityValue (46-54) and CreateEntityValueExp (62-70)
ParsedReturn(result, statusCode, err) ==
    IF statusCode # StatusOK THEN [val |-> NilVal, err |-> err]
    ELSE LET u == UnmarshalEntity(result)
         IN  IF u.err # NoErr THEN [val |-> NilVal, err |-> u.err]
             ELSE [val |-> EntityPtr(u.entity), err |-> NoErr]

\* Entities, lines 112-116: the status code and the parse error are dropped
EntitiesReturn(result, statusCode, err) ==
    IF err # NoErr THEN [val |-> NilVal, err |-> err]
    ELSE [val |-> parseEntities(result).val, err |-> NoErr]

\* Entity, lines 124-128
EntityReturn(result, statusCode, err) ==
    IF err # NoErr THEN [val |-> NilVal, err |-> err]
    ELSE [val |-> parseEntity(result).val, err |-> NoErr]

OpNames ==
    {"CreateEntity", "CreateEntityValue", "CreateEntityValueExp", "DeleteEntity",
     "DeleteEntityValue", "DeleteEntityValueExp", "Entities", "Entity", "UpdateEntity"}

RawOps ==
    {"CreateEntity", "DeleteEntity", "DeleteEntityValue", "DeleteEntityValueExp",
     "UpdateEntity"}

\* the (value, error) operation name returns on the helper's answer
Return(name, result, statusCode, err) ==
    CASE name \in RawOps -> RawReturn(result, statusCode, err)
      [] name \in {"CreateEntityValue", "CreateEntityValueExp"} ->
            ParsedReturn(result, statusCode, err)
      [] name = "Entities" -> EntitiesReturn(result, statusCode, err)
      [] name = "Entity" -> EntityReturn(result, statusCode, err)

\* What a helper can return: any body with any status code and any error.
TransportAnswers ==
    [result : Bodies, statusCode : StatusCodes, err : TransportErrs \cup {NoErr}]

\* TransportReturn as it would be if a status other than 200 made the operation
\* send its request again
TransportReturnRetries(c) ==
    \E answer \in TransportAnswers :
        /\ pc[c] = "wait"
        /\ IF answer.statusCode # StatusOK /\ Len(reqs[c]) < 2
           THEN /\ reqs' = [reqs EXCEPT ![c] = Append(reqs[c], reqs[c][1])]
                /\ UNCHANGED <<pc, reply, ret>>
           ELSE /\ pc' = [pc EXCEPT ![c] = "done"]
                /\ reply' = [reply EXCEPT ![c] = answer]
                /\ ret' = [ret EXCEPT ![c] =
                              Return(op[c], answer.result, answer.statusCode, answer.err)]
                /\ UNCHANGED reqs
        /\ UNCHANGED <<ApiBase, op, args, heap>>

\* The helper returns to caller c, and the operation runs to its return
\* statement.
TransportReturn(c) ==
    \E answer \in TransportAnswers :
        /\ pc[c] = "wait"
        /\ pc' = [pc EXCEPT ![c] = "done"]
        /\ reply' = [reply EXCEPT ![c] = answer]
        /\ ret' = [ret EXCEPT ![c] =
                      Return(op[c], answer.result, answer.statusCode, answer.err)]
        /\ UNCHANGED <<ApiBase, op, args, heap, reqs>>

\* The caller takes the returned pair and drops its objects; it may call again.
CallerContinues(c) ==
    /\ pc[c] = "done"
    /\ pc' = [pc EXCEPT ![c] = "idle"]
    /\ op' = [op EXCEPT ![c] = "none"]
    /\ args' = [args EXCEPT ![c] = NoArgs]
    /\ heap' = [heap EXCEPT ![c] = NoHeap]
    /\ reqs' = [reqs EXCEPT ![c] = << >>]
    /\ reply' = [reply EXCEPT ![c] = NoReply]
    /\ ret' = [ret EXCEPT ![c] = NoRet]
    /\ UNCHANGED ApiBase

Step(c) ==
    \/ CreateEntity(c)
    \/ CreateEntityValue(c)
    \/ CreateEntityValueExp(c)
    \/ DeleteEntity(c)
    \/ DeleteEntityValue(c)
    \/ DeleteEntityValueExp(c)
    \/ Entities(c)
    \/ Entity(c)
    \/ UpdateEntity(c)
    \/ TransportReturn(c)
    \/ CallerContinues(c)

Next == \E c \in Callers : Step(c)

Spec == Init /\ [][Next]_vars

(***************************************************************************)
(* Properties.                                                             *)
(***************************************************************************)
Returned(c) == pc[c] = "done"

InCall(c) == pc[c] \in {"wait", "done"}

\* C1: whenever the transport answered with a status code other than 200, the
\* operation returns a nil value, whatever the body and the error.
C1_NonOkReturnsNil ==
    \A c \in Callers :
        (Returned(c) /\ reply[c].statusCode # StatusOK) => ret[c].val = NilVal

\* C2: whenever the transport answered with a status code other than 200, the
\* operation returns a non-nil error and a nil value, also when the transport
\* reported no error.
C2_NonOkReturnsError ==
    \A c \in Callers :
        (Returned(c) /\ reply[c].statusCode # StatusOK)
            => (ret[c].err # NoErr /\ ret[c].val = NilVal)

\* C3: no operation returns a non-nil value together with a non-nil error.
C3_ValueXorError ==
    \A c \in Callers :
        Returned(c) => ~(ret[c].val # NilVal /\ ret[c].err # NoErr)

\* a decode failure after a 200: an error is returned, and with it no value
C3_Witness ==
    \E c \in Callers :
        /\ Returned(c)
        /\ op[c] = "CreateEntityValue"
        /\ reply[c].statusCode = StatusOK
        /\ reply[c].result = BodyList
        /\ ret[c].err # NoErr
        /\ ret[c].val = NilVal

\* C4: when the transport succeeded (no error, status 200) and the body does
\* not decode into the expected type, Entities and Entity return a non-nil
\* error and a nil value.
C4_ParseFailureIsError ==
    \A c \in Callers :
        /\ (Returned(c) /\ op[c] = "Entities" /\ reply[c].err = NoErr
                /\ reply[c].statusCode = StatusOK
                /\ UnmarshalEntities(reply[c].result).err # NoErr)
            => (ret[c].err # NoErr /\ ret[c].val = NilVal)
        /\ (Returned(c) /\ op[c] = "Entity" /\ reply[c].err = NoErr
                /\ reply[c].statusCode = StatusOK
                /\ UnmarshalEntity(reply[c].result).err # NoErr)
            => (ret[c].err # NoErr /\ ret[c].val = NilVal)

\* C5: whenever the transport returned a non-nil error, the operation returns
\* that error and a nil value, whatever the status code.
C5_TransportErrorPropagated ==
    \A c \in Callers :
        (Returned(c) /\ reply[c].err # NoErr)
            => (ret[c].err = reply[c].err /\ ret[c].val = NilVal)

\* the path segment the two expressions of Exps must be escaped to
C6_Escaped(exp) == IF exp = << >> THEN "" ELSE "a+%26"

\* the verb, URL and body the endpoint of each operation is documented with
C6_Endpoint(name, a, base) ==
    CASE name = "CreateEntity" ->
            [verb |-> "POST", url |-> base \o "/entities",
             hasBody |-> TRUE, body |-> MarshalEntity(a.entity).data]
      [] name = "CreateEntityValue" ->
            [verb |-> "POST", url |-> base \o "/entities/" \o a.id \o "/values",
             hasBody |-> TRUE, body |-> MarshalEntityValue(a.entityValue).data]
      [] name = "CreateEntityValueExp" ->
            [verb |-> "POST",
             url |-> base \o "/entities/" \o a.id \o "/values/" \o a.value \o "/expressions",
             hasBody |-> TRUE, body |-> Concat(a.exp)]
      [] name = "Entities" ->
            [verb |-> "GET", url |-> base \o "/entities", hasBody |-> FALSE, body |-> ""]
      [] name = "Entity" ->
            [verb |-> "GET", url |-> base \o "/entities/" \o a.id,
             hasBody |-> FALSE, body |-> ""]
      [] name = "UpdateEntity" ->
            [verb |-> "PUT", url |-> base \o "/entities/" \o a.entity.Id,
             hasBody |-> TRUE, body |-> MarshalEntity(a.entity).data]
      [] name = "DeleteEntity" ->
            [verb |-> "DELETE", url |-> base \o "/entities/" \o a.id,
             hasBody |-> FALSE, body |-> ""]
      [] name = "DeleteEntityValue" ->
            [verb |-> "DELETE",
             url |-> base \o "/entities/" \o a.id \o "/values/" \o a.value,
             hasBody |-> FALSE, body |-> ""]
      [] name = "DeleteEntityValueExp" ->
            [verb |-> "DELETE",
             url |-> base \o "/entities/" \o a.id \o "/values/" \o a.value
                        \o "/expression/" \o C6_Escaped(a.exp),
             hasBody |-> FALSE, body |-> ""]

\* C6: the request of every call in progress is the fixed verb and path of
\* its operation's endpoint under the client's base URL; the expression is the
\* raw body of CreateEntityValueExp and the escaped last segment of
\* DeleteEntityValueExp, which is empty for the empty expression.
C6_FixedEndpoint ==
    \A c \in Callers :
        InCall(c) => reqs[c] = << C6_Endpoint(op[c], args[c], ApiBase) >>

\* a DeleteEntityValueExp of the empty expression and a CreateEntityValueExp
\* of an expression that needs escaping are in progress
C6_Witness ==
    \E c, d \in Callers :
        /\ InCall(c) /\ op[c] = "DeleteEntityValueExp" /\ args[c].exp = << >>
        /\ args[c].id = "favorite_city"
        /\ reqs[c][1].url = ApiBase \o "/entities/favorite_city/values/Paris/expression/"
        /\ InCall(d) /\ op[d] = "CreateEntityValueExp" /\ args[d].exp = <<"a", " ", "&">>
        /\ reqs[d][1].body = "a &"

\* what belongs to the call of caller c
CallState(c) == <<op[c], args[c], heap[c], reqs[c], reply[c], ret[c]>>

\* C7 (frame): no step changes the base URL, and a step in which caller c does
\* not move leaves everything of c's call as it was.
C7_Frame ==
    /\ ApiBase' = ApiBase
    /\ \A c \in Callers : pc'[c] = pc[c] => CallState(c)' = CallState(c)

\* C7 (dependence): two calls of the same operation with the same arguments
\* sent the same request, and if the transport gave them the same answer they
\* returned the same pair, whatever else ran in between.
C7_Dependence ==
    \A c, d \in Callers :
        (InCall(c) /\ InCall(d) /\ op[c] = op[d] /\ args[c] = args[d])
            => /\ reqs[c] = reqs[d]
               /\ (Returned(c) /\ Returned(d) /\ reply[c] = reply[d]) => ret[c] = ret[d]

\* C7: the client holds no mutable shared state: calls neither change the base
\* URL nor each other, and a call's request and result are determined by its
\* own arguments, the base URL and the transport's answer to it.
C7_NoSharedState == [][C7_Frame]_vars /\ []C7_Dependence

\* two callers ran the same UpdateEntity concurrently and got the same answer
C7_Witness ==
    /\ Returned("c1") /\ Returned("c2")
    /\ op["c1"] = "UpdateEntity" /\ op["c2"] = "UpdateEntity"
    /\ args["c1"] = args["c2"]
    /\ reply["c1"] = reply["c2"]
    /\ ret["c1"] = ret["c2"]

\* C8: during and after CreateEntity, UpdateEntity and CreateEntityValue the
\* object the caller passed in is as it was at the call.
C8_InputNotMutated ==
    \A c \in Callers :
        (InCall(c) /\ op[c] \in {"CreateEntity", "UpdateEntity", "CreateEntityValue"})
            => /\ heap[c].entity = args[c].entity
               /\ heap[c].entityValue = args[c].entityValue

\* a CreateEntity of an entity with values has failed, another has succeeded
C8_Witness ==
    \E c, d \in Callers :
        /\ Returned(c) /\ op[c] = "CreateEntity" /\ args[c].entity.Values # << >>
        /\ reply[c].statusCode # StatusOK
        /\ Returned(d) /\ op[d] = "CreateEntity" /\ args[d].entity.Values # << >>
        /\ ret[d].val # NilVal

\* C10: a call hands exactly one request to the transport, whatever the
\* outcome, and once the transport has answered it returns.
C10_OneRoundTrip ==
    \A c \in Callers :
        /\ Len(reqs[c]) <= 1
        /\ InCall(c) => Len(reqs[c]) = 1
        /\ pc[c] = "wait" => ENABLED TransportReturn(c)

\* a call answered with a status other than 200 and no error has returned
C10_Witness ==
    \E c \in Callers :
        /\ Returned(c)
        /\ reply[c].statusCode # StatusOK
        /\ reply[c].err = NoErr
        /\ Len(reqs[c]) = 1

====
